---- MODULE Spec2Model ----
(***************************************************************************)
(* LuncheonNetwork: the ledger (blockchain.Blockchain), the proof-of-work  *)
(* miner (blockchain.Miner) and the validator (wallet.Wallet).             *)
(*                                                                         *)
(* Strings are sequences of character codes: the codes 0..15 are the hex   *)
(* digits '0'..'f', codes from 16 up are the letters after 'f'.  Byte      *)
(* slices are sequences of 0..255.  Unsigned 64-bit quantities are kept    *)
(* modulo 2^Bits64 and the miner's 32-bit nonce modulo NonceSpace, because *)
(* the model checker's integers are 32 bits wide.                          *)
(***************************************************************************)
EXTENDS Integers, Sequences, FiniteSets, TLC

VARIABLES chain, clock, origTxs, miner, rw, call

vars == <<chain, clock, origTxs, miner, rw, call>>

-----------------------------------------------------------------------------
(* Bounds of the model *)

\* width of the modelled unsigned 64-bit word (uint64 arithmetic is mod 2^Bits64)
Bits64 == 29
\* size of the miner's nonce space (the code's 2^32)
NonceSpace == 4
\* the clock runs over 0..MaxClock
MaxClock == 2
\* the ledger holds at most MaxBlocks blocks
MaxBlocks == 3
\* a candidate block carries at most MaxTxs transactions
MaxTxs == 2
\* the modelled digest is spread over HashSpread values per byte
HashSpread == 32
\* reward heights sampled: Delta below and above every halving boundary
Delta == 2
\* halving boundaries sampled: 0..MaxHalvings
MaxHalvings == 65

\* the ledger on which block rewards mature holds at most MaxLedger blocks
MaxLedger == 13

-----------------------------------------------------------------------------
(* Program constants *)

GenesisTarget == 487587839      \* 0x1d0fffff
MaxPackedTarget == 503316479    \* 0x1dffffff
HalvingInterval == 525600
RetargetInterval == 10080
Maturity == 10
HashLen == 32

Mod64 == 2 ^ Bits64

\* uint64 addition and subtraction
Add64(a, b) == (a + b) % Mod64
Sub64(a, b) == (a - b) % Mod64

-----------------------------------------------------------------------------
(* utilities.ByteUtil, encoding/hex, sha3.ShakeSum256 *)

Zeros(n) == [i \in 1..n |-> 0]

\* the big-endian bytes of an unsigned 32-bit number
Uint32toB(n) ==
    << (n \div 16777216) % 256, (n \div 65536) % 256, (n \div 256) % 256, n % 256 >>

\* the big-endian bytes of an unsigned 64-bit number
Uint64toB(n) == Zeros(4) \o Uint32toB(n)

\* hex.EncodeToString: two hex digits per byte
HexEncode(bs) ==
    <<>> \o [i \in 1..(2 * Len(bs)) |->
        IF i % 2 = 1 THEN bs[(i + 1) \div 2] \div 16 ELSE bs[i \div 2] % 16]

\* the least member of a non-empty set of numbers
Least(S) == CHOOSE x \in S : \A y \in S : x <= y

\* the number of leading character pairs of s that are hex digits
HexPrefix(s) ==
    LET bad == {n \in 0..(Len(s) \div 2 - 1) :
                   s[2 * n + 1] >= 16 \/ s[2 * n + 2] >= 16}
    IN  IF bad = {} THEN Len(s) \div 2 ELSE Least(bad)

\* hex.DecodeString with its error dropped: the bytes decoded before the
\* first character that is no hex digit (or before the odd last one)
HexDecode(s) ==
    <<>> \o [i \in 1..HexPrefix(s) |-> s[2 * i - 1] * 16 + s[2 * i]]

\* the digest's entropy: a tree fold of the input bytes lo..hi
RECURSIVE Mix(_, _, _)
Mix(bs, lo, hi) ==
    IF lo > hi THEN 1
    ELSE IF lo = hi THEN (bs[lo] * 5 + 3) % (HashSpread * HashSpread)
    ELSE LET mid == (lo + hi) \div 2
         IN  (Mix(bs, lo, mid) * 31 + Mix(bs, mid + 1, hi) * 17 + 7)
                 % (HashSpread * HashSpread)

\* the 32 bytes of a digest: three zero bytes, two bytes of digest, zero
\* bytes after
DigestBytes(h) == <<0, 0, 0, h % HashSpread, h \div HashSpread>> \o Zeros(HashLen - 5)

\* sha3.ShakeSum256(hash, data) with a 32-byte output
ShakeSum256(bs) == DigestBytes(Mix(bs, 1, Len(bs)))

\* bytes.Compare(a, b) = 1: a is lexicographically greater than b
BytesGreater(a, b) ==
    LET n == IF Len(a) < Len(b) THEN Len(a) ELSE Len(b)
        diff == {i \in 1..n : a[i] # b[i]}
    IN  IF diff = {} THEN Len(a) > Len(b)
        ELSE a[Least(diff)] > b[Least(diff)]

\* utilities.TargetUnpacker.UnpackAsBytes: the 256-bit target as 32 big-endian
\* bytes; exponent = compact >> 24, mantissa = compact & 0xffffff
UnpackAsBytes(compact) ==
    LET exp == compact \div 16777216
        mant == compact % 16777216
        small == IF exp = 0 THEN 0
                 ELSE IF exp = 1 THEN mant \div 65536
                 ELSE IF exp = 2 THEN mant \div 256
                 ELSE mant
        mb == IF exp <= 3 THEN Uint32toB(small) ELSE Uint32toB(mant)
        \* index (1..32) of the mantissa's low byte
        low == IF exp <= 3 THEN HashLen ELSE HashLen - (exp - 3)
    IN  <<>> \o [i \in 1..HashLen |->
            IF i = low THEN mb[4]
            ELSE IF i = low - 1 THEN mb[3]
            ELSE IF i = low - 2 THEN mb[2]
            ELSE 0]

-----------------------------------------------------------------------------
(* transactions.LuTx, ellip *)

\* the public keys of the accounts, as hex strings
KeyA == <<0, 10>>
KeyB == <<0, 11>>
Accounts == {KeyA, KeyB}

RECURSIVE Concat(_)
Concat(ss) == IF ss = <<>> THEN <<>> ELSE Head(ss) \o Concat(Tail(ss))

\* LuTx.AsBytes: the canonical serialization of all the fields of the tx
TxAsBytes(tx) ==
    tx.TxFrom \o tx.TxTo \o Uint64toB(tx.Value) \o Uint64toB(tx.Fee)
        \o Uint32toB(tx.Nonce) \o tx.Signature

\* the digest two bytes of a 32-byte hash carry
Digest(h) == <<h[4], h[5]>>

\* MainKey.SignMsg: the detached signature of key pub over a message hash
SignMsg(pub, hash) == pub \o Digest(hash)

\* ellip.ValidateSig(pubKey, hash, signature)
ValidateSig(pub, hash, sig) == pub # <<>> /\ sig = SignMsg(pub, hash)

\* the hash a transaction's signature is made over: the bytes of the tx with
\* its signature cleared
TxHash(tx) == ShakeSum256(TxAsBytes([tx EXCEPT !.Signature = <<>>]))

\* a transaction of the given fields, signed by its sender when signed holds
MakeTx(from, to, value, fee, nonce, signed) ==
    LET t == [TxFrom |-> from, TxTo |-> to, Value |-> value, Fee |-> fee,
              Nonce |-> nonce, Signature |-> <<>>]
    IN  IF signed
        THEN [t EXCEPT !.Signature = HexEncode(SignMsg(HexDecode(from), TxHash(t)))]
        ELSE t

-----------------------------------------------------------------------------
(* blockchain.Block *)

\* utilities.SoftwareVersion
SoftwareVersion == <<1>>
OtherVersion == <<2>>

\* the sentinel "CoolGenisisBLock" the genesis block points to
GenesisPrevHash == <<12, 24, 24, 21, 16, 14, 23, 18, 28, 18, 28, 11, 21, 24, 12, 20>>

\* the public key string of a MainKey that holds no key
GenesisMiner == <<>>

\* Block.GetMerkleRoot: the hash summarizing the transaction list in list order
GetMerkleRoot(txs) ==
    HexEncode(ShakeSum256(Concat([i \in 1..Len(txs) |-> TxAsBytes(txs[i])])))

\* Block.RemoveTx(index): drops the transaction at the 0-based index
RemoveTx(txs, index) ==
    <<>> \o [i \in 1..(Len(txs) - 1) |-> IF i <= index THEN txs[i] ELSE txs[i + 1]]

\* Block.ParseBlockToBytes: the header fields before the nonce
ParseBlockToBytes(b) ==
    b.SoftwareVersion \o HexDecode(b.PrevHash) \o HexDecode(b.MerkleRoot)
        \o Uint32toB(b.PackedTarget) \o Uint64toB(b.Timestamp)

\* the bytes VerifyBlock hashes: version, prevHash, merkleRoot, packedTarget,
\* timestamp, nonce
HeaderBytes(b) ==
    b.SoftwareVersion \o HexDecode(b.PrevHash) \o HexDecode(b.MerkleRoot)
        \o Uint32toB(b.PackedTarget) \o Uint64toB(b.Timestamp) \o Uint32toB(b.Nonce)

EmptyBlock ==
    [SoftwareVersion |-> <<>>, PrevHash |-> <<>>, MerkleRoot |-> <<>>,
     Timestamp |-> 0, PackedTarget |-> 0, Nonce |-> 0, Miner |-> <<>>,
     Txs |-> <<>>, BlockHash |-> <<>>]

-----------------------------------------------------------------------------
(* blockchain.Blockchain *)

\* InitBlockchain leaving the packed target of the genesis block unset
InitBlockchainUnsetTarget ==
    << [EmptyBlock EXCEPT !.SoftwareVersion = SoftwareVersion,
                          !.PrevHash = GenesisPrevHash,
                          !.Miner = GenesisMiner] >>

\* InitBlockchain: the ledger holding the genesis block alone
InitBlockchain ==
    << [EmptyBlock EXCEPT !.SoftwareVersion = SoftwareVersion,
                          !.PrevHash = GenesisPrevHash,
                          !.PackedTarget = GenesisTarget,
                          !.Miner = GenesisMiner] >>

\* a returned value, or a run-time panic
Ret(v) == [panic |-> FALSE, val |-> v]
Panic == [panic |-> TRUE, val |-> 0]

\* 2 << k in the 64 bits of the returned type: 0 once the bit is shifted out
\* of the word; a result above 2^30 is given as 2^30 (the reward divides 200
\* by it, and every divisor above 200 gives 0)
Shl2(k) == IF k >= 63 THEN 0 ELSE IF k >= 29 THEN 2 ^ 30 ELSE 2 ^ (k + 1)

\* GetBlockReward shifting by the number of halvings: 200 / (2 << halvings)
GetBlockRewardShiftedOnce(height) ==
    LET halvings == height \div HalvingInterval
    IN  IF halvings = 0 THEN Ret(200 * 1000000)
        ELSE IF Shl2(halvings) = 0 THEN Panic
        ELSE Ret((200 \div Shl2(halvings)) * 1000000)

\* Blockchain.GetBlockReward
GetBlockReward(height) ==
    LET halvings == height \div HalvingInterval
    IN  IF halvings = 0 THEN Ret(200 * 1000000)
        ELSE IF Shl2(halvings - 1) = 0 THEN Panic
        ELSE Ret((200 \div Shl2(halvings - 1)) * 1000000)

\* Blockchain.GetHeight: uint(len(b.Blocks) - 1)
GetHeight(blocks) == (Len(blocks) - 1) % Mod64

\* int(u) of an unsigned word
IntOf(u) == IF u >= Mod64 \div 2 THEN u - Mod64 ELSE u

\* Blockchain.AddBlock
AddBlock(blocks, block) == Append(blocks, block)

\* UInt256.Multiply by a small multiplier: the low i bytes of bs times m plus
\* carry, modulo 256^i
RECURSIVE MulFrom(_, _, _, _)
MulFrom(bs, m, i, carry) ==
    IF i = 0 THEN <<>>
    ELSE LET p == bs[Len(bs)] * m + carry
         IN  MulFrom(SubSeq(bs, 1, Len(bs) - 1), m, i - 1, p \div 256) \o <<p % 256>>

Multiply(bs, m) == MulFrom(bs, m, Len(bs), 0)

\* TargetPacker.PackTargetUint256: the byte length of the target as exponent,
\* its three leading bytes as mantissa, shifted down one byte when the
\* mantissa's top bit is set
PackTarget(bs) ==
    LET nz == {i \in 1..Len(bs) : bs[i] # 0}
        first == IF nz = {} THEN Len(bs) + 1 ELSE Least(nz)
        size == Len(bs) - first + 1
        at(i) == IF i >= 1 /\ i <= Len(bs) THEN bs[i] ELSE 0
        mant == at(first) * 65536 + at(first + 1) * 256 + at(first + 2)
    IN  IF size = 0 THEN 0
        ELSE IF mant >= 8388608
        THEN (size + 1) * 16777216 + mant \div 256
        ELSE size * 16777216 + mant

\* the retarget without the cap at the genesis target
RetargetUnclamped(prevTarget, firstTimestamp, lastTimestamp) ==
    LET time == Sub64(lastTimestamp, firstTimestamp)
    IN  IF time = 0 THEN Panic
        ELSE Ret(PackTarget(Multiply(UnpackAsBytes(prevTarget),
                                     (RetargetInterval * 60) \div time)))

\* the retarget of CalculatePackedTarget: the previous target times
\* (10080 * 60) / time, capped at the genesis target
Retarget(prevTarget, firstTimestamp, lastTimestamp) ==
    LET time == Sub64(lastTimestamp, firstTimestamp)
    IN  IF time = 0 THEN Panic
        ELSE LET newMultiplier == (RetargetInterval * 60) \div time
                 newTarget == Multiply(UnpackAsBytes(prevTarget), newMultiplier)
             IN  IF BytesGreater(newTarget, UnpackAsBytes(GenesisTarget))
                 THEN Ret(GenesisTarget)
                 ELSE Ret(PackTarget(newTarget))

\* Blockchain.CalculatePackedTarget
CalculatePackedTarget(blocks, blockNumber) ==
    IF blockNumber > Len(blocks) THEN Ret(0)
    ELSE IF blockNumber % RetargetInterval = 0
    THEN IF blockNumber = 0 THEN Panic
         ELSE Retarget(blocks[blockNumber].PackedTarget,
                       blocks[blockNumber - RetargetInterval + 1].Timestamp,
                       blocks[blockNumber].Timestamp)
    ELSE Ret(blocks[blockNumber].PackedTarget)

-----------------------------------------------------------------------------
(* wallet.Wallet *)

\* Wallet.ScanChainForBalance, from block index (0-based) on
RECURSIVE ScanBalanceFrom(_, _, _)
ScanBalanceFrom(blocks, pubKey, index) ==
    IF index >= Len(blocks) THEN 0
    ELSE
        LET b == blocks[index + 1]
            reward == IF b.Miner = pubKey /\ (index + Maturity) < IntOf(GetHeight(blocks))
                      THEN GetBlockReward(index).val
                      ELSE 0
            received == [i \in 1..Len(b.Txs) |->
                            IF b.Txs[i].TxTo = pubKey THEN b.Txs[i].Value ELSE 0]
            Sum[i \in 0..Len(received)] ==
                IF i = 0 THEN 0 ELSE Add64(Sum[i - 1], received[i])
        IN  Add64(Add64(reward, Sum[Len(received)]),
                  ScanBalanceFrom(blocks, pubKey, index + 1))

ScanChainForBalance(blocks, pubKey) == ScanBalanceFrom(blocks, pubKey, 0)

\* Wallet.ScanChainForNonce: the number of transactions pubKey sent
RECURSIVE ScanNonceFrom(_, _, _)
ScanNonceFrom(blocks, pubKey, index) ==
    IF index >= Len(blocks) THEN 0
    ELSE Cardinality({i \in 1..Len(blocks[index + 1].Txs) :
                         blocks[index + 1].Txs[i].TxFrom = pubKey})
         + ScanNonceFrom(blocks, pubKey, index + 1)

ScanChainForNonce(blocks, pubKey) == ScanNonceFrom(blocks, pubKey, 0)

\* the balance test of VerifyTx: balance - (value + fee) > 0 in uint64
BalanceCheckFails(balance, value, fee) == Sub64(balance, Add64(value, fee)) > 0

\* Wallet.VerifyTx
VerifyTx(blocks, tx) ==
    IF BalanceCheckFails(ScanChainForBalance(blocks, tx.TxFrom), tx.Value, tx.Fee)
    THEN FALSE
    ELSE IF tx.Nonce # ScanChainForNonce(blocks, tx.TxFrom)
    THEN FALSE
    ELSE ValidateSig(HexDecode(tx.TxFrom), TxHash(tx), HexDecode(tx.Signature))

\* the transaction loop of VerifyBlock: index runs over the list as it is
\* being pruned
RECURSIVE PruneTxs(_, _, _)
PruneTxs(blocks, txs, index) ==
    IF index >= Len(txs) THEN txs
    ELSE IF ~VerifyTx(blocks, txs[index + 1])
    THEN PruneTxs(blocks, RemoveTx(txs, index), index + 1)
    ELSE PruneTxs(blocks, txs, index + 1)

\* the outcome of VerifyBlock: a panic, or the returned boolean together with
\* the block as the call leaves it
VRet(r, block) == [panic |-> FALSE, ret |-> r, block |-> block]
VPanic(block) == [panic |-> TRUE, ret |-> FALSE, block |-> block]

\* VerifyBlock without the comparison of the timestamp with the tip's
VerifyBlockNoTipTime(blocks, block, checkSoftwareVersion, now) ==
    IF Len(blocks) = 1 THEN VRet(TRUE, block)
    ELSE IF checkSoftwareVersion /\ block.SoftwareVersion # SoftwareVersion
    THEN VRet(FALSE, block)
    ELSE IF HexEncode(ShakeSum256(HeaderBytes(block))) # block.BlockHash
    THEN VRet(FALSE, block)
    ELSE IF GetHeight(blocks) >= Len(blocks)
    THEN VPanic(block)
    ELSE IF block.PrevHash # blocks[GetHeight(blocks) + 1].BlockHash
    THEN VRet(FALSE, block)
    ELSE IF block.Timestamp > now
    THEN VRet(FALSE, block)
    ELSE IF CalculatePackedTarget(blocks, Len(blocks)).panic
    THEN VPanic(block)
    ELSE IF block.PackedTarget # CalculatePackedTarget(blocks, Len(blocks)).val
    THEN VRet(FALSE, block)
    ELSE IF block.MerkleRoot # GetMerkleRoot(block.Txs)
    THEN VRet(FALSE, block)
    ELSE VRet(TRUE, [block EXCEPT !.Txs = PruneTxs(blocks, block.Txs, 0)])

\* Wallet.VerifyBlock(block, checkSoftwareVersion) at wall-clock time now
VerifyBlock(blocks, block, checkSoftwareVersion, now) ==
    IF Len(blocks) = 1 THEN VRet(TRUE, block)
    ELSE IF checkSoftwareVersion /\ block.SoftwareVersion # SoftwareVersion
    THEN VRet(FALSE, block)
    ELSE IF HexEncode(ShakeSum256(HeaderBytes(block))) # block.BlockHash
    THEN VRet(FALSE, block)
    ELSE IF GetHeight(blocks) >= Len(blocks)
    THEN VPanic(block)
    ELSE IF block.PrevHash # blocks[GetHeight(blocks) + 1].BlockHash
    THEN VRet(FALSE, block)
    ELSE IF block.Timestamp < blocks[GetHeight(blocks) + 1].Timestamp
            \/ block.Timestamp > now
    THEN VRet(FALSE, block)
    ELSE IF CalculatePackedTarget(blocks, Len(blocks)).panic
    THEN VPanic(block)
    ELSE IF block.PackedTarget # CalculatePackedTarget(blocks, Len(blocks)).val
    THEN VRet(FALSE, block)
    ELSE IF block.MerkleRoot # GetMerkleRoot(block.Txs)
    THEN VRet(FALSE, block)
    ELSE VRet(TRUE, [block EXCEPT !.Txs = PruneTxs(blocks, block.Txs, 0)])

\* the outcome of VerifyBlockchain: a panic, or the returned boolean, together
\* with the ledger as the call leaves it
CRet(r, blocks) == [panic |-> FALSE, ret |-> r, blocks |-> blocks]
CPanic(blocks) == [panic |-> TRUE, ret |-> FALSE, blocks |-> blocks]

\* the loop of VerifyBlockchain from blockIndex on: VerifyBlock is given the
\* ledger's own block, which it prunes in place
RECURSIVE VerifyBlocksFrom(_, _, _)
VerifyBlocksFrom(blocks, blockIndex, now) ==
    IF blockIndex >= Len(blocks) THEN CRet(TRUE, blocks)
    ELSE LET v == VerifyBlock(blocks, blocks[blockIndex + 1], FALSE, now)
         IN  IF v.panic THEN CPanic(blocks)
             ELSE IF ~v.ret THEN CRet(FALSE, blocks)
             ELSE VerifyBlocksFrom([blocks EXCEPT ![blockIndex + 1] = v.block],
                                   blockIndex + 1, now)

\* Wallet.VerifyBlockchain at wall-clock time now
VerifyBlockchain(blocks, now) ==
    IF Len(blocks) = 0 THEN CRet(TRUE, blocks)
    ELSE IF Len(blocks[1].Txs) # 0 THEN CRet(FALSE, blocks)
    ELSE IF blocks[1].PackedTarget # GenesisTarget THEN CRet(FALSE, blocks)
    ELSE VerifyBlocksFrom(blocks, 1, now)

-----------------------------------------------------------------------------
(* blockchain.Miner *)

\* Miner.inputTarget: the error it returns, "" for nil
inputTarget(target) ==
    IF target = 0 THEN "cannot input target 0"
    ELSE IF target > MaxPackedTarget THEN "target is to large"
    ELSE ""

\* the test of the mining loop turned round: bytes.Compare(...) != -1
HashMeetsTargetInverted(hash, target) == ~BytesGreater(target, hash)

\* the test of the mining loop: bytes.Compare(currentHash, unpackedTarget) != 1
HashMeetsTarget(hash, target) == ~BytesGreater(hash, target)

\* the hash of one attempt: the block bytes taken when Start was entered,
\* followed by the nonce
AttemptHash(inputBlockBytes, nonce) ==
    ShakeSum256(inputBlockBytes \o Uint32toB(nonce))

\* b.Nonce++ on the 32-bit nonce
NextNonce(nonce) == (nonce + 1) % NonceSpace

IdleMiner ==
    [pc |-> "idle", b |-> EmptyBlock, inputBlockBytes |-> <<>>,
     unpackedTarget |-> <<>>, currentHash |-> <<>>, err |-> ""]

\* the candidate blocks handed to Miner.Start
TargetSamples ==
    {0, 486539265, 486801407, GenesisTarget, MaxPackedTarget, MaxPackedTarget + 1}

MinerCandidates ==
    { [EmptyBlock EXCEPT !.SoftwareVersion = SoftwareVersion,
                         !.PrevHash = p,
                         !.MerkleRoot = GetMerkleRoot(<<>>),
                         !.Timestamp = ts,
                         !.PackedTarget = t,
                         !.Miner = KeyA] :
        p \in {<<>>, HexEncode(ShakeSum256(<<>>))},
        ts \in 0..MaxClock,
        t \in TargetSamples }

\* Miner.Start, up to the mining loop
MinerStart(c) ==
    /\ miner.pc = "idle"
    /\ miner' =
        IF ParseBlockToBytes(c) = <<>>
        THEN [miner EXCEPT !.pc = "error", !.b = c,
                           !.err = "please input a block with data inside it"]
        ELSE IF inputTarget(c.PackedTarget) # ""
        THEN [miner EXCEPT !.pc = "panic", !.b = c,
                           !.inputBlockBytes = ParseBlockToBytes(c),
                           !.err = inputTarget(c.PackedTarget)]
        ELSE [miner EXCEPT !.pc = "searching",
                           !.b = [c EXCEPT !.Nonce = 0],
                           !.inputBlockBytes = ParseBlockToBytes(c),
                           !.unpackedTarget = UnpackAsBytes(c.PackedTarget)]
    /\ UNCHANGED <<chain, clock, origTxs, rw, call>>

\* one iteration of the mining loop of Miner.Start
MinerAttempt ==
    /\ miner.pc = "searching"
    /\ LET stamped == [miner.b EXCEPT !.Timestamp = clock]
           hash == AttemptHash(miner.inputBlockBytes, miner.b.Nonce)
       IN  miner' =
            IF HashMeetsTarget(hash, miner.unpackedTarget)
            THEN [miner EXCEPT !.pc = "found", !.currentHash = hash,
                               !.b = [stamped EXCEPT !.BlockHash = HexEncode(hash)]]
            ELSE IF NextNonce(miner.b.Nonce) <= NonceSpace - 1
            THEN [miner EXCEPT !.currentHash = hash,
                               !.b = [stamped EXCEPT !.Nonce = NextNonce(miner.b.Nonce)]]
            ELSE [miner EXCEPT !.pc = "exhausted", !.currentHash = hash,
                               !.b = [stamped EXCEPT !.Nonce = NextNonce(miner.b.Nonce)],
                               !.err = "you have reached the end of the defined search space! Impressive"]
    /\ UNCHANGED <<chain, clock, origTxs, rw, call>>

\* utilities.Time.CurrentUnix moves on
Tick ==
    /\ clock < MaxClock
    /\ clock' = clock + 1
    /\ UNCHANGED <<chain, origTxs, miner, rw, call>>

-----------------------------------------------------------------------------
(* The ledger fed by the validator *)

\* the transactions the candidate blocks are made of
BlockTxPool ==
    { MakeTx(KeyA, KeyB, 0, 0, 0, TRUE), MakeTx(KeyA, KeyB, 1, 0, 0, TRUE),
      MakeTx(KeyB, KeyA, 1, 0, 0, TRUE), MakeTx(KeyA, KeyB, 0, 0, 1, TRUE) }

TxLists == UNION { [1..n -> BlockTxPool] : n \in 0..MaxTxs }

\* the transactions verify_tx is asked about
TxUniverse ==
    { MakeTx(f, t, v, fee, n, s) :
        f \in Accounts, t \in Accounts, v \in {0, 1, Mod64 - 1},
        fee \in {0, 1}, n \in {0, 1}, s \in BOOLEAN }

Defects == {"none", "version", "hash", "prev", "past", "future", "target", "merkle"}

\* a candidate block on top of blocks at time now, well formed but for defect
Candidate(blocks, now, txs, defect) ==
    LET tip == blocks[Len(blocks)]
        target == CalculatePackedTarget(blocks, Len(blocks)).val
        hdr == [EmptyBlock EXCEPT
                  !.SoftwareVersion = IF defect = "version" THEN OtherVersion
                                      ELSE SoftwareVersion,
                  !.PrevHash = IF defect = "prev" THEN HexEncode(ShakeSum256(<<1>>))
                               ELSE tip.BlockHash,
                  !.MerkleRoot = IF defect = "merkle" THEN GetMerkleRoot(<<>>) \o <<0>>
                                 ELSE GetMerkleRoot(txs),
                  !.Timestamp = IF defect = "past" THEN tip.Timestamp - 1
                                ELSE IF defect = "future" THEN now + 1
                                ELSE now,
                  !.PackedTarget = IF defect = "target" THEN MaxPackedTarget
                                   ELSE target,
                  !.Miner = KeyA,
                  !.Txs = txs]
    IN  [hdr EXCEPT !.BlockHash = IF defect = "hash" THEN <<>>
                                  ELSE HexEncode(ShakeSum256(HeaderBytes(hdr)))]

\* a candidate block is verified against the ledger and, when VerifyBlock
\* returns true, appended as VerifyBlock left it
SubmitBlock(txs, defect, checkSoftwareVersion) ==
    /\ Len(chain) < MaxBlocks
    /\ defect # "version" => checkSoftwareVersion
    /\ defect = "past" => chain[Len(chain)].Timestamp > 0
    /\ LET c == Candidate(chain, clock, txs, defect)
           v == VerifyBlock(chain, c, checkSoftwareVersion, clock)
       IN  /\ ~v.panic
           /\ v.ret
           /\ chain' = AddBlock(chain, v.block)
           /\ origTxs' = txs
    /\ UNCHANGED <<clock, miner, rw, call>>

-----------------------------------------------------------------------------
(* The reward schedule *)

HeightSamples ==
    { k * HalvingInterval + d : k \in 0..MaxHalvings, d \in (0 - Delta)..Delta } \ ((0 - Delta)..(-1))

\* Blockchain.GetBlockReward is asked for the reward of a height
RewardAt(h) ==
    /\ rw' = [height |-> h, out |-> GetBlockReward(h)]
    /\ UNCHANGED <<chain, clock, origTxs, miner, call>>

-----------------------------------------------------------------------------
(* Specifications *)

\* no call of the validator or of the retarget has been made yet
NoCall == [op |-> "none"]

Init ==
    /\ chain = InitBlockchain
    /\ clock = 0
    /\ origTxs = <<>>
    /\ miner = IdleMiner
    /\ rw = [height |-> 0, out |-> GetBlockReward(0)]
    /\ call = NoCall

\* the ledger: blocks are verified and appended while the clock runs
Next ==
    \/ \E txs \in TxLists : SubmitBlock(txs, "none", TRUE)
    \/ \E d \in Defects \ {"none"}, v \in BOOLEAN : SubmitBlock(<<>>, d, v)
    \/ Tick

Spec == Init /\ [][Next]_vars

\* the miner, with a running clock
NextMiner ==
    \/ \E c \in MinerCandidates : MinerStart(c)
    \/ MinerAttempt
    \/ Tick

SpecMiner == Init /\ [][NextMiner]_vars

\* the miner, with a pinned clock
InitPinned ==
    /\ chain = InitBlockchain
    /\ clock \in 0..MaxClock
    /\ origTxs = <<>>
    /\ miner = IdleMiner
    /\ rw = [height |-> 0, out |-> GetBlockReward(0)]
    /\ call = NoCall

NextPinned ==
    \/ \E c \in MinerCandidates : MinerStart(c)
    \/ MinerAttempt

SpecPinned == InitPinned /\ [][NextPinned]_vars

\* the reward schedule
NextReward == \E h \in HeightSamples : RewardAt(h)

SpecReward == Init /\ [][NextReward]_vars

-----------------------------------------------------------------------------
(* Properties *)

\* the ledger the newest block was verified against
Prior == SubSeq(chain, 1, Len(chain) - 1)

\* C1: in a ledger grown from InitBlockchain by appending only blocks that
\* VerifyBlock accepted, every block after the genesis block points to the
\* block before it, the first block on top of the genesis block included
C1_ChainLinked ==
    \A i \in 2..Len(chain) : chain[i].PrevHash = chain[i - 1].BlockHash

\* C2: VerifyTx returns false for every transaction whose sender's balance is
\* less than value + fee, the sum taken as an exact integer
C2_InsufficientBalanceRejected ==
    \A tx \in TxUniverse :
        ScanChainForBalance(chain, tx.TxFrom) < tx.Value + tx.Fee
            => ~VerifyTx(chain, tx)

\* C3: VerifyTx returns true for every transaction whose sender's balance is
\* at least value + fee, whose nonce is the sender's transaction count and
\* whose signature verifies
C3_CoveredTxAccepted ==
    \A tx \in TxUniverse :
        ( /\ ScanChainForBalance(chain, tx.TxFrom) >= tx.Value + tx.Fee
          /\ tx.Nonce = ScanChainForNonce(chain, tx.TxFrom)
          /\ ValidateSig(HexDecode(tx.TxFrom), TxHash(tx), HexDecode(tx.Signature)) )
            => VerifyTx(chain, tx)

\* VerifyTx returns false for every transaction whose nonce differs from the
\* number of transactions its sender has on the ledger
NonceMismatchRejected ==
    \A tx \in TxUniverse :
        tx.Nonce # ScanChainForNonce(chain, tx.TxFrom) => ~VerifyTx(chain, tx)

\* a transaction of an appended block fails VerifyTx when presented again
IncludedTxRejected ==
    \A i \in 1..Len(chain) : \A j \in 1..Len(chain[i].Txs) :
        ~VerifyTx(chain, chain[i].Txs[j])

\* C4: a transaction whose nonce differs from its sender's transaction count
\* fails VerifyTx, and so does every transaction of an appended block when
\* it is presented again
C4_ReplayRejected == NonceMismatchRejected /\ IncludedTxRejected

\* C5: when VerifyBlock accepts a block against a ledger of two blocks or
\* more, the block is left with exactly the transactions of its original list
\* that pass VerifyTx against that ledger, in their original order
C5_FailingTxsPruned ==
    Len(chain) >= 3 =>
        chain[Len(chain)].Txs = SelectSeq(origTxs, LAMBDA t : VerifyTx(Prior, t))

\* the hash VerifyBlock recomputes from the fields of a block
RecomputedHash(b) == HexEncode(ShakeSum256(HeaderBytes(b)))

\* C6: the block Miner.Start returns carries the hash of its own header
\* fields, also when the clock moved during the search
C6_MinedHashMatchesHeader ==
    miner.pc = "found" => miner.b.BlockHash = RecomputedHash(miner.b)

\* nonce n solves the search the miner is in: its attempt hash is at most the
\* unpacked target of the candidate
Solves(n) ==
    ~BytesGreater(AttemptHash(miner.inputBlockBytes, n),
                  UnpackAsBytes(miner.b.PackedTarget))

\* the block the miner returned has a hash at or below the target and the
\* first nonce, counting up from 0, that solves the search
FoundIsFirstSolution ==
    miner.pc = "found" =>
        /\ ~BytesGreater(HexDecode(miner.b.BlockHash), UnpackAsBytes(miner.b.PackedTarget))
        /\ miner.b.BlockHash = HexEncode(AttemptHash(miner.inputBlockBytes, miner.b.Nonce))
        /\ Solves(miner.b.Nonce)
        /\ \A n \in 0..(miner.b.Nonce - 1) : ~Solves(n)

\* the search has passed no nonce that solves it
NoSolutionSkipped ==
    miner.pc = "searching" => \A n \in 0..(miner.b.Nonce - 1) : ~Solves(n)

\* a block found for a candidate that came stamped with the time of the
\* pinned clock carries the hash of its own header fields
PinnedHashRecomputes ==
    (miner.pc = "found" /\ ParseBlockToBytes(miner.b) = miner.inputBlockBytes)
        => miner.b.BlockHash = RecomputedHash(miner.b)

\* C7: with a pinned clock, the search passes no solving nonce, and the block
\* it returns has a hash at or below the unpacked target and the first nonce,
\* counting up from 0, whose hash is at or below the target
C7_FirstSolutionReturned ==
    FoundIsFirstSolution /\ NoSolutionSkipped /\ PinnedHashRecomputes

C7_Witness ==
    /\ miner.pc = "found"
    /\ miner.b.Nonce > 0
    /\ miner.b.Timestamp = clock
    /\ ParseBlockToBytes(miner.b) = miner.inputBlockBytes

\* C8: a search that no nonce solves stops once the last nonce of the nonce
\* space has been tried, with the exhausted-search error
C8_ExhaustedSearchStops ==
    [][ ( /\ miner.pc = "searching"
          /\ miner.b.Nonce = NonceSpace - 1
          /\ ~Solves(NonceSpace - 1)
          /\ miner' # miner )
        => miner'.pc = "exhausted" ]_vars

\* C9: Miner.Start on a candidate whose packed target is 0 or above
\* 0x1dffffff makes no hash attempt and returns the target error to its caller
C9_InvalidTargetReturned ==
    ( /\ miner.pc # "idle"
      /\ (miner.b.PackedTarget = 0 \/ miner.b.PackedTarget > 503316479) )
        => /\ miner.pc = "error"
           /\ miner.err # ""
           /\ miner.currentHash = <<>>

\* C10: the reward is 200,000,000 at height 0, 100,000,000 at 525600 and
\* 50,000,000 at 2 * 525600; every height below 8 * 525600 has the positive
\* reward (200 div 2^(height div 525600)) * 1,000,000, and the reward at
\* 8 * 525600 is 0
C10_RewardSchedule ==
    /\ rw.height = 0 => rw.out = Ret(200000000)
    /\ rw.height = 525600 => rw.out = Ret(100000000)
    /\ rw.height = 525600 * 2 => rw.out = Ret(50000000)
    /\ rw.height < 525600 * 8 =>
          /\ ~rw.out.panic
          /\ rw.out.val > 0
          /\ rw.out.val = (200 \div (2 ^ (rw.height \div 525600))) * 1000000
    /\ rw.height = 525600 * 8 => rw.out = Ret(0)

C10_Witness ==
    /\ rw.height = 525600 * 8 - 1
    /\ rw.out = Ret(1000000)

\* C11: for every height at or above 8 * 525600, GetBlockReward returns the
\* value 0
C11_RewardStaysZero ==
    rw.height >= 525600 * 8 => rw.out = Ret(0)

-----------------------------------------------------------------------------
(* The retarget at the end of a window of RetargetInterval blocks *)

\* the packed targets the blocks of the window carry: 0x1d0fffff, 0x1d07ffff,
\* 0x1c0fffff, 0x1d000fff, 0x03000001, 0x1dffffff
PrevTargetSamples ==
    {GenesisTarget, 487063551, 470810623, 486543359, 50331649, MaxPackedTarget}

\* the seconds between the first and the last block of the window
ElapsedSamples == {0, 1, 302400, 604799, 604800, 604801, 1209600}

\* the timestamp of the first block of a window that does not start at the
\* genesis block
FirstSamples == {0, 5}

\* a ledger of windows * 10080 blocks: the genesis block of InitBlockchain,
\* then blocks that carry prevTarget; the last window starts at time first
\* (time 0 when it starts with the genesis block) and ends at time last
RetargetLedger(windows, prevTarget, first, last) ==
    LET n == windows * RetargetInterval
        start == n - RetargetInterval + 1
    IN  <<>> \o [i \in 1..n |->
            IF i = 1 THEN InitBlockchain[1]
            ELSE [EmptyBlock EXCEPT
                    !.SoftwareVersion = SoftwareVersion,
                    !.PackedTarget = prevTarget,
                    !.Miner = KeyA,
                    !.Timestamp = IF i = n THEN last
                                  ELSE IF i >= start THEN first
                                  ELSE 0]]

\* Blockchain.CalculatePackedTarget is asked, once, for the target of the
\* block that follows the last window of such a ledger
RetargetAt(windows, prevTarget, first, elapsed) ==
    /\ call = NoCall
    /\ call' = [op |-> "CalculatePackedTarget",
                blockNumber |-> windows * RetargetInterval,
                prevTarget |-> prevTarget,
                first |-> first,
                last |-> first + elapsed,
                out |-> CalculatePackedTarget(
                            RetargetLedger(windows, prevTarget, first, first + elapsed),
                            windows * RetargetInterval)]
    /\ UNCHANGED <<chain, clock, origTxs, miner, rw>>

NextRetarget ==
    \E windows \in 1..2, prevTarget \in PrevTargetSamples, elapsed \in ElapsedSamples :
        \E first \in (IF windows = 1 THEN {0} ELSE FirstSamples) :
            RetargetAt(windows, prevTarget, first, elapsed)

SpecRetarget == Init /\ [][NextRetarget]_vars

\* the smaller of two 256-bit numbers
MinBytes(a, b) == IF BytesGreater(a, b) THEN b ELSE a

\* C12: at a retarget boundary with elapsed > 0 seconds between the first and
\* the last block of the window, CalculatePackedTarget returns
\* pack(min(unpack(previous target) * (604800 div elapsed), unpack(0x1d0fffff))):
\* the same target when elapsed is 604800, the doubled target (capped at the
\* genesis target) when elapsed is 302400, and never a target above the
\* genesis target
C12_RetargetFormula ==
    (call.op = "CalculatePackedTarget" /\ call.last - call.first > 0) =>
        LET elapsed == call.last - call.first
            prev == UnpackAsBytes(call.prevTarget)
            genesis == UnpackAsBytes(487587839)
            scaled(m) == PackTarget(MinBytes(Multiply(prev, m), genesis))
        IN  /\ call.out = Ret(scaled(604800 \div elapsed))
            /\ (elapsed = 604800 /\ ~BytesGreater(prev, genesis))
                   => UnpackAsBytes(call.out.val) = prev
            /\ elapsed = 302400 => call.out = Ret(scaled(2))
            /\ ~BytesGreater(UnpackAsBytes(call.out.val), genesis)

C12_Witness ==
    /\ call.op = "CalculatePackedTarget"
    /\ call.blockNumber = 20160
    /\ call.last - call.first = 302400
    /\ call.prevTarget = 470810623
    /\ call.out = Ret(471859198)

-----------------------------------------------------------------------------
(* Block rewards on a growing ledger *)

\* a block without transactions, mined by key, is verified against the ledger
\* and appended
MineBlock(key) ==
    /\ Len(chain) < MaxLedger
    /\ LET c == [Candidate(chain, clock, <<>>, "none") EXCEPT !.Miner = key]
           v == VerifyBlock(chain, c, TRUE, clock)
       IN  /\ ~v.panic
           /\ v.ret
           /\ chain' = AddBlock(chain, v.block)
           /\ origTxs' = <<>>
    /\ UNCHANGED <<clock, miner, rw, call>>

NextMaturity == \E key \in Accounts : MineBlock(key)

SpecMaturity == Init /\ [][NextMaturity]_vars

\* the values the transactions of the ledger send to pubKey
ReceivedValue(blocks, pubKey) ==
    LET Sum[i \in 0..Len(blocks)] ==
            IF i = 0 THEN 0
            ELSE LET txs == blocks[i].Txs
                     Got[j \in 0..Len(txs)] ==
                         IF j = 0 THEN 0
                         ELSE Add64(Got[j - 1],
                                    IF txs[j].TxTo = pubKey THEN txs[j].Value ELSE 0)
                 IN  Add64(Sum[i - 1], Got[Len(txs)])
    IN  Sum[Len(blocks)]

\* the rewards of the blocks pubKey mined that have at least 10 blocks on top
\* of them: height - i >= 10, height being the length of the ledger less 1
MaturedRewards(blocks, pubKey) ==
    LET height == Len(blocks) - 1
        Sum[i \in -1..height] ==
            IF i = -1 THEN 0
            ELSE Add64(Sum[i - 1],
                       IF blocks[i + 1].Miner = pubKey /\ height - i >= 10
                       THEN GetBlockReward(i).val ELSE 0)
    IN  Sum[height]

\* C13: the balance of an account counts the reward of the block at index i
\* that the account mined exactly when height - i >= 10
C13_RewardMaturesAfterTen ==
    \A a \in Accounts :
        ScanChainForBalance(chain, a)
            = Add64(MaturedRewards(chain, a), ReceivedValue(chain, a))

-----------------------------------------------------------------------------
(* The validator called on a ledger *)

\* block b carrying the hash of its own header fields
Sealed(b) == [b EXCEPT !.BlockHash = HexEncode(ShakeSum256(HeaderBytes(b)))]

\* the ledgers the validator is called on: a Blockchain that holds no block,
\* the wallet's ledger, and a ledger of one window of 10080 blocks whose last
\* block has the timestamp last
VerifyLedgers ==
    {[kind |-> "empty", last |-> 0], [kind |-> "chain", last |-> 0]}
        \cup {[kind |-> "window", last |-> e] : e \in 0..MaxClock}

LedgerOf(l) ==
    IF l.kind = "empty" THEN <<>>
    ELSE IF l.kind = "chain" THEN chain
    ELSE RetargetLedger(1, GenesisTarget, 0, l.last)

\* the candidate blocks given to VerifyBlock on ledger l at time now
VerifyCandidates(l, now) ==
    IF l.kind = "empty"
    THEN LET b == [InitBlockchain[1] EXCEPT !.Timestamp = now]
         IN  {b, Sealed(b), Sealed([b EXCEPT !.SoftwareVersion = OtherVersion])}
    ELSE LET blocks == LedgerOf(l)
         IN  {Candidate(blocks, now, <<>>, d) : d \in Defects}

\* Wallet.VerifyBlock is called, once, on a ledger and a candidate block
VerifyBlockOn(l, c, checkSoftwareVersion) ==
    /\ call = NoCall
    /\ LET blocks == LedgerOf(l)
       IN  call' = [op |-> "VerifyBlock", ledger |-> l, block |-> c,
                    out |-> VerifyBlock(blocks, c, checkSoftwareVersion, clock)]
    /\ UNCHANGED <<chain, clock, origTxs, miner, rw>>

\* Wallet.VerifyBlockchain is called, once, on a ledger
VerifyBlockchainOn(l) ==
    /\ call = NoCall
    /\ LET blocks == LedgerOf(l)
           r == VerifyBlockchain(blocks, clock)
       IN  call' = [op |-> "VerifyBlockchain", ledger |-> l,
                    out |-> [panic |-> r.panic, ret |-> r.ret]]
    /\ UNCHANGED <<chain, clock, origTxs, miner, rw>>

NextVerify ==
    \/ \E l \in VerifyLedgers, v \in BOOLEAN :
           \E c \in VerifyCandidates(l, clock) : VerifyBlockOn(l, c, v)
    \/ \E l \in VerifyLedgers : VerifyBlockchainOn(l)
    \/ Tick

SpecVerify == Init /\ [][NextVerify]_vars

\* C14: VerifyBlock and VerifyBlockchain return a boolean on every ledger (the
\* empty one, the genesis-only one, one whose length is a multiple of 10080)
\* and every candidate block: they never abort
C14_ValidatorNeverAborts ==
    call.op \in {"VerifyBlock", "VerifyBlockchain"} => ~call.out.panic

\* C15: the ledger InitBlockchain returns has exactly one block, that block
\* has no transactions and the packed target 0x1d0fffff, and VerifyBlockchain
\* returns true on it
C15_FreshLedgerVerifies ==
    /\ Len(InitBlockchain) = 1
    /\ Len(InitBlockchain[1].Txs) = 0
    /\ InitBlockchain[1].PackedTarget = 487587839
    /\ (call.op = "VerifyBlockchain" /\ call.ledger.kind = "chain")
           => /\ chain = InitBlockchain
              /\ call.out = [panic |-> FALSE, ret |-> TRUE]

C15_Witness ==
    /\ chain = InitBlockchain
    /\ call.op = "VerifyBlockchain"
    /\ call.ledger.kind = "chain"
    /\ call.out.ret

-----------------------------------------------------------------------------
(* The ledger fed with blocks that carry no transactions *)

NextChain ==
    \/ \E d \in Defects, v \in BOOLEAN : SubmitBlock(<<>>, d, v)
    \/ Tick

SpecChain == Init /\ [][NextChain]_vars

\* C16: in a ledger grown from InitBlockchain by appending only blocks that
\* VerifyBlock accepted, the timestamps of the blocks never decrease along
\* the ledger
C16_TimestampsNonDecreasing ==
    \A i \in 1..(Len(chain) - 1) : chain[i].Timestamp <= chain[i + 1].Timestamp

C16_Witness ==
    /\ Len(chain) = 3
    /\ chain[2].Timestamp > 0
    /\ chain[3].Timestamp > chain[2].Timestamp

\* C17: on every ledger grown from InitBlockchain by appending only blocks
\* that VerifyBlock accepted, VerifyBlockchain returns true
C17_ReachableLedgerVerifies ==
    LET r == VerifyBlockchain(chain, clock)
    IN  ~r.panic /\ r.ret

\* no two transactions of the list have the same sender and the same nonce
DistinctNonces(txs) ==
    \A i, j \in 1..Len(txs) :
        (i # j /\ txs[i].TxFrom = txs[j].TxFrom) => txs[i].Nonce # txs[j].Nonce

\* C18: a block that VerifyBlock accepted against a ledger of two blocks or
\* more is left with no two transactions of the same sender and the same nonce
C18_NoDuplicateNonce ==
    Len(chain) >= 3 => DistinctNonces(chain[Len(chain)].Txs)

\* C19: at a retarget boundary of a ledger with non-decreasing timestamps and
\* nonzero targets, CalculatePackedTarget returns a nonzero packed target
\* that Miner.inputTarget accepts, whatever time the window took
C19_RetargetGivesValidTarget ==
    call.op = "CalculatePackedTarget" =>
        /\ ~call.out.panic
        /\ call.out.val # 0
        /\ inputTarget(call.out.val) = ""

-----------------------------------------------------------------------------
(* The ledger fed with blocks that carry transfers *)

\* the transfers the candidate blocks carry: the largest value there is, the
\* largest value with a fee of 1, and a value of 1
CoinTxPool ==
    { MakeTx(KeyA, KeyB, Mod64 - 1, 0, 0, TRUE),
      MakeTx(KeyA, KeyB, Mod64 - 1, 1, 0, TRUE),
      MakeTx(KeyB, KeyA, 1, 0, 0, TRUE) }

CoinTxLists == UNION { [1..n -> CoinTxPool] : n \in 0..MaxTxs }

NextCoins ==
    \/ \E txs \in CoinTxLists : SubmitBlock(txs, "none", TRUE)
    \/ Tick

SpecCoins == Init /\ [][NextCoins]_vars

\* the balances of all the accounts of the ledger, added up
TotalBalance(blocks) ==
    ScanChainForBalance(blocks, KeyA) + ScanChainForBalance(blocks, KeyB)
        + ScanChainForBalance(blocks, GenesisMiner)

\* the block rewards of all the blocks of the ledger, added up
TotalReward(blocks) ==
    LET Sum[i \in -1..(Len(blocks) - 1)] ==
            IF i = -1 THEN 0 ELSE Sum[i - 1] + GetBlockReward(i).val
    IN  Sum[Len(blocks) - 1]

\* C20: in a ledger grown from InitBlockchain by appending only blocks that
\* VerifyBlock accepted, the balances of all accounts together never exceed
\* the block rewards of the blocks of the ledger together
C20_NoCoinsCreated ==
    TotalBalance(chain) <= TotalReward(chain)

====
